---- MODULE Spec2Model ----
(***************************************************************************)
(* duplicate-cleaner: detection pass (walkDirs -> groupBySize -> calcHashs *)
(* -> groupByHash), list file writer/reader (saveList, readList) and the   *)
(* cleanup pass (clean, Clean).                                            *)
(*                                                                         *)
(* Strings are sequences of one-character strings; the empty string is     *)
(* <<>>.  A nil error is <<>>, errors.Join of a list is the list itself.   *)
(* A nil map and an empty map are both the empty function.                 *)
(***************************************************************************)
EXTENDS Integers, Sequences, FiniteSets, TLC

\* ------------------------------------------------------------------ bounds
MaxRoots == 2
MaxFiles == 3
MaxN == 2

VARIABLES
    disk,       \* file system: content and read fault of the two variable files
    cwdOk,      \* whether os.Getwd succeeds (filepath.Abs of a relative path)
    dirs,       \* List: argument dirs
    hashName,   \* List: argument hashName
    n,          \* List, calcHashs: argument n; Clean: n
    pc,         \* position of the main goroutine
    walked,     \* List: fs as returned by walkDirs
    files,      \* List: fs as returned by groupBySize, hashed in place
    lst,        \* List: lst / the DupList handed to saveList
    err,        \* List: err; clean: err
    spawned,    \* calcHashs: number of loop iterations done
    tpc,        \* calcHashs: position of each goroutine
    loc,        \* calcHashs: hashValue, err of each goroutine
    c,          \* calcHashs: number of elements in the channel c
    g,          \* calcHashs: counter of the WaitGroup g
    m,          \* calcHashs: holder of the Mutex m, 0 when unlocked
    errs,       \* calcHashs: errs; Clean: errs
    opened,     \* goroutines holding an open *os.File
    lists,      \* the list files: lists[k] is the file cfg.args[k] of -c,
                \* and saveList writes lists[1]
    exist,      \* the paths os.Remove can remove
    delList,    \* clean: delList
    idx,        \* Clean: number of loop iterations done
    removed,    \* the calls of os.Remove so far, in order
    out         \* what was printed on os.Stdout

vars == <<disk, cwdOk, dirs, hashName, n, pc, walked, files, lst, err,
          spawned, tpc, loc, c, g, m, errs, opened,
          lists, exist, delList, idx, removed, out>>
CmdVars == <<lists, exist, delList, idx, removed, out>>

\* ------------------------------------------------------------- file system
Sep == "/"
NameGit == <<".", "G", "i", "t">>
DirD == <<(<<"d">>)>>
DirGit == <<(<<"d">>), NameGit>>
DirS == <<(<<"d">>), <<"s">>>>
DirT == <<(<<"d">>), <<"t">>>>
FileA == <<(<<"d">>), <<"a">>>>
FileB == <<(<<"d">>), <<"s">>, <<"b">>>>
FileC == <<(<<"d">>), <<"s">>, <<"c">>>>
FileG == <<(<<"d">>), NameGit, <<"g">>>>
FileH == <<(<<"d">>), <<"t">>, <<"h">>>>
FileL == <<(<<"d">>), <<"l">>>>
FileZ == <<(<<"d">>), <<"z">>>>
Cwd == DirD

VarFiles == {FileA, FileB}
Contents == {<<"x">>, <<"y">>, <<"z", "z">>}
Sound == [data : Contents, fault : {"none"}]
Faulty == [data : {<<"x">>}, fault : {"open", "read"}]
\* the states of the variable files: FileA has any content or cannot be
\* opened or read, FileB has any content
DiskStates == {d \in [VarFiles -> Sound \cup Faulty] : d[FileB] \in Sound}

\* content and fault of a regular file of the tree
FileOf(d, p) ==
    CASE p \in VarFiles -> d[p]
      [] p \in {FileC, FileG, FileH} -> [data |-> <<"x">>, fault |-> "none"]
      [] p = FileZ -> [data |-> <<>>, fault |-> "none"]

\* os.Lstat
Lstat(d, p) ==
    CASE p \in {DirD, DirGit, DirS, DirT} -> [err |-> FALSE, kind |-> "dir", size |-> 0]
      [] p \in {FileA, FileB, FileC, FileG, FileH, FileZ} ->
            [err |-> FALSE, kind |-> "regular", size |-> Len(FileOf(d, p).data)]
      [] p = FileL -> [err |-> FALSE, kind |-> "symlink", size |-> 1]
      [] OTHER -> [err |-> TRUE, kind |-> "none", size |-> 0]

\* readDirNames: the sorted names of a directory
ReadDirNames(p) ==
    CASE p = DirD -> [err |-> FALSE, names |-> <<NameGit, <<"a">>, <<"l">>, <<"s">>, <<"t">>, <<"u">>, <<"z">>>>]
      [] p = DirGit -> [err |-> FALSE, names |-> <<(<<"g">>)>>]
      [] p = DirS -> [err |-> FALSE, names |-> <<(<<"b">>), <<"c">>>>]
      [] OTHER -> [err |-> TRUE, names |-> <<>>]

\* ----------------------------------------------------------------- strings
RECURSIVE PathString(_)
\* filepath.Join of the names of an absolute path
PathString(p) == IF p = <<>> THEN <<>> ELSE PathString(SubSeq(p, 1, Len(p) - 1)) \o <<Sep>> \o p[Len(p)]

ToLowerChar(ch) ==
    CASE ch = "G" -> "g" [] ch = "S" -> "s" [] ch = "H" -> "h" [] ch = "A" -> "a"
      [] ch = "M" -> "m" [] ch = "D" -> "d" [] ch = "I" -> "i" [] ch = "T" -> "t"
      [] ch = "V" -> "v" [] ch = "N" -> "n" [] OTHER -> ch

\* strings.ToLower
ToLower(s) == [i \in 1..Len(s) |-> ToLowerChar(s[i])]

\* strings.EqualFold
EqualFold(s, t) == ToLower(s) = ToLower(t)

\* filepath.Base of a path given by its names
Base(p) == IF p = <<>> THEN <<Sep>> ELSE p[Len(p)]

\* filepath.Abs: ok is false when the working directory cannot be determined
Abs(dir, ok) ==
    IF dir.abs THEN [err |-> FALSE, path |-> dir.names]
    ELSE IF ok THEN [err |-> FALSE, path |-> Cwd \o dir.names]
    ELSE [err |-> TRUE, path |-> <<>>]

\* ---------------------------------------------------------------- walkDirs
FileInfo(path, size, hash) == [Path |-> path, Size |-> size, Hash |-> hash]

\* the callback walkDirs passes to filepath.Walk
WalkFn(p, info, e) ==
    IF e THEN [ret |-> "SkipDir", add |-> <<>>]
    ELSE IF info.kind = "dir" /\ (EqualFold(Base(p), <<".", "g", "i", "t">>)
                              \/ EqualFold(Base(p), <<".", "s", "v", "n">>))
        THEN [ret |-> "SkipDir", add |-> <<>>]
    ELSE IF info.kind # "regular" THEN [ret |-> "nil", add |-> <<>>]
    ELSE IF info.size > 0
        THEN [ret |-> "nil", add |-> <<FileInfo(PathString(p), info.size, <<>>)>>]
    ELSE [ret |-> "nil", add |-> <<>>]

RECURSIVE walk(_, _, _)
RECURSIVE walkNames(_, _, _, _)
\* filepath.walk: the callback's return value and the records it appended
walk(d, p, info) ==
    IF info.kind # "dir" THEN WalkFn(p, info, FALSE)
    ELSE LET rd == ReadDirNames(p)
             r1 == WalkFn(p, info, rd.err)
         IN IF rd.err \/ r1.ret # "nil" THEN r1
            ELSE walkNames(d, p, rd.names, 1)

\* the loop of filepath.walk over the names of a directory, from index k
walkNames(d, p, names, k) ==
    IF k > Len(names) THEN [ret |-> "nil", add |-> <<>>]
    ELSE LET q == Append(p, names[k])
             st == Lstat(d, q)
             r == IF st.err THEN WalkFn(q, st, TRUE) ELSE walk(d, q, st)
             stop == IF st.err THEN r.ret \notin {"nil", "SkipDir"}
                     ELSE r.ret # "nil" /\ (st.kind # "dir" \/ r.ret # "SkipDir")
         IN IF stop THEN r
            ELSE LET rest == walkNames(d, p, names, k + 1)
                 IN [ret |-> rest.ret, add |-> r.add \o rest.add]

\* filepath.Walk
Walk(d, root) ==
    LET st == Lstat(d, root)
        r == IF st.err THEN WalkFn(root, st, TRUE) ELSE walk(d, root, st)
    IN [err |-> r.ret \notin {"nil", "SkipDir"}, add |-> r.add]

RECURSIVE walkLoop(_, _, _, _)
\* the loop of walkDirs over dirs, from index k
walkLoop(d, ok, ds, k) ==
    IF k > Len(ds) THEN [err |-> <<>>, files |-> <<>>]
    ELSE LET a == Abs(ds[k], ok)
         IN IF a.err THEN walkLoop(d, ok, ds, k + 1)
            ELSE LET w == Walk(d, a.path)
                 IN IF w.err THEN [err |-> <<"walk">>, files |-> <<>>]
                    ELSE LET rest == walkLoop(d, ok, ds, k + 1)
                         IN IF rest.err # <<>> THEN rest
                            ELSE [err |-> <<>>, files |-> w.add \o rest.files]

walkDirs(d, ok, ds) ==
    IF Len(ds) = 0 THEN [err |-> <<"no dirs">>, files |-> <<>>]
    ELSE walkLoop(d, ok, ds, 1)

\* ------------------------------------------------------------- groupBySize
\* the orders in which a range over a map with key set S may visit its keys
Orders(S) == {o \in [1..Cardinality(S) -> S] : \A i, j \in DOMAIN o : o[i] = o[j] => i = j}

SizeKeys(fs) == {fs[i].Size : i \in DOMAIN fs}

\* group[k] after the first loop of groupBySize
SizeGroup(fs, k) == SelectSeq(fs, LAMBDA f : f.Size = k)

RECURSIVE sizeLoopDropsPairs(_, _, _)
sizeLoopDropsPairs(fs, o, k) ==
    IF k > Len(o) THEN <<>>
    ELSE LET v == SizeGroup(fs, o[k])
         IN IF Len(v) <= 2 THEN sizeLoopDropsPairs(fs, o, k + 1)
            ELSE v \o sizeLoopDropsPairs(fs, o, k + 1)

RECURSIVE sizeLoop(_, _, _)
\* the second loop of groupBySize, visiting the keys in the order o from index k
sizeLoop(fs, o, k) ==
    IF k > Len(o) THEN <<>>
    ELSE LET v == SizeGroup(fs, o[k])
         IN IF Len(v) = 1 THEN sizeLoop(fs, o, k + 1)
            ELSE v \o sizeLoop(fs, o, k + 1)

groupBySize(fs, o) == IF Len(fs) = 0 THEN <<>> ELSE sizeLoop(fs, o, 1)

\* ------------------------------------------------------------- groupByHash
HashKeys(fs) == {fs[i].Hash : i \in DOMAIN fs} \ {<<>>}

groupByHashKeepsSingle(fs) ==
    IF Len(fs) = 0 THEN <<>>
    ELSE [k \in HashKeys(fs) |-> SelectSeq(fs, LAMBDA f : f.Hash = k)]

groupByHash(fs) ==
    IF Len(fs) = 0 THEN <<>>
    ELSE LET group == [k \in HashKeys(fs) |-> SelectSeq(fs, LAMBDA f : f.Hash = k)]
             counts == [k \in HashKeys(fs) |-> Len(group[k])]
         IN [k \in {h \in HashKeys(fs) : counts[h] # 1} |-> group[k]]

\* ----------------------------------------------------------------- hashing
\* newHash: the digest selected by name, md5 when the name is unknown
newHash(name) ==
    LET l == ToLower(name)
    IN CASE l = <<"s", "h", "a", "1">> -> "sha1"
         [] l = <<"s", "h", "a", "2", "5", "6">> -> "sha256"
         [] l = <<"s", "h", "a", "5", "1", "2">> -> "sha512"
         [] OTHER -> "md5"

\* hex.EncodeToString(h.Sum(nil)) after copying data into h: an injective
\* encoding of the digest and the data (digests do not collide)
HexSum(h, data) ==
    (CASE h = "sha1" -> <<"1">> [] h = "sha256" -> <<"2">>
       [] h = "sha512" -> <<"5">> [] OTHER -> <<"0">>) \o data

RegularFiles == {FileA, FileB, FileC, FileG, FileH, FileZ}

\* os.Open of a path string: the file it names, opened unless it is faulty
Open(d, path) ==
    IF \E p \in RegularFiles : PathString(p) = path /\ FileOf(d, p).fault # "open"
    THEN [err |-> "nil", file |-> CHOOSE p \in RegularFiles : PathString(p) = path]
    ELSE [err |-> "open", file |-> <<>>]

\* io.Copy(h, f) followed by the hex digest
Copy(d, h, p) ==
    IF FileOf(d, p).fault = "read" THEN [err |-> "read", hashValue |-> <<>>]
    ELSE [err |-> "nil", hashValue |-> HexSum(h, FileOf(d, p).data)]

\* ------------------------------------------------------------------- List
HashNames == {<<"S", "H", "A", "1">>}
RootNames == {[abs |-> TRUE, names |-> DirD], [abs |-> FALSE, names |-> <<(<<"s">>)>>],
              [abs |-> TRUE, names |-> FileA]}
SeqsUpTo(S, k) == UNION {[1..j -> S] : j \in 0..k}

\* no list file, nothing to remove, nothing printed
NoCmd ==
    /\ lists = <<>> /\ exist = {} /\ delList = <<>>
    /\ idx = 0 /\ removed = <<>> /\ out = <<>>

HashVars == <<spawned, tpc, loc, c, g, m, errs, opened>>
EnvVars == <<disk, cwdOk, dirs, hashName, n>>

Init ==
    /\ disk \in DiskStates
    /\ dirs \in SeqsUpTo(RootNames, MaxRoots)
    \* os.Getwd is only called for a relative dir
    /\ cwdOk \in {ok \in BOOLEAN : ok \/ \E k \in DOMAIN dirs : ~dirs[k].abs}
    /\ Len(walkDirs(disk, cwdOk, dirs).files) <= MaxFiles
    /\ hashName \in HashNames
    /\ n \in 1..MaxN
    /\ pc = "walkDirs"
    /\ walked = <<>> /\ files = <<>> /\ lst = <<>> /\ err = <<>>
    /\ spawned = 0 /\ tpc = <<>> /\ loc = <<>>
    /\ c = 0 /\ g = 0 /\ m = 0 /\ errs = <<>> /\ opened = {}
    /\ NoCmd

\* fs, err := walkDirs(dirs); if err != nil { return nil, err }
WalkDirs ==
    /\ pc = "walkDirs"
    /\ LET r == walkDirs(disk, cwdOk, dirs)
       IN IF r.err # <<>>
          THEN /\ err' = r.err /\ lst' = <<>> /\ pc' = "done"
               /\ UNCHANGED walked
          ELSE /\ walked' = r.files /\ pc' = "groupBySize"
               /\ UNCHANGED <<err, lst>>
    /\ UNCHANGED <<CmdVars, EnvVars, files, HashVars>>

\* fs = groupBySize(fs)
GroupBySize ==
    /\ pc = "groupBySize"
    /\ \E o \in Orders(SizeKeys(walked)) : files' = groupBySize(walked, o)
    /\ pc' = "calcHashs"
    /\ UNCHANGED <<CmdVars, EnvVars, walked, lst, err, HashVars>>

\* calcHashs up to its loop: return nil for no files, else make g, c, m, errs
CalcHashsEnter ==
    /\ pc = "calcHashs"
    /\ IF Len(files) = 0
       THEN /\ err' = <<>> /\ pc' = "groupByHash"
            /\ UNCHANGED HashVars
       ELSE /\ g' = 0 /\ c' = 0 /\ m' = 0 /\ errs' = <<>>
            /\ spawned' = 0 /\ opened' = {}
            /\ tpc' = [i \in DOMAIN files |-> "idle"]
            /\ loc' = [i \in DOMAIN files |-> [hashValue |-> <<>>, err |-> "nil"]]
            /\ pc' = "spawn"
            /\ UNCHANGED err
    /\ UNCHANGED <<CmdVars, EnvVars, walked, files, lst>>

\* one iteration of the loop: g.Add(1); go func(f)
Spawn ==
    /\ pc = "spawn"
    /\ spawned < Len(files)
    /\ g' = g + 1
    /\ spawned' = spawned + 1
    /\ tpc' = [tpc EXCEPT ![spawned + 1] = "acquire"]
    /\ UNCHANGED <<CmdVars, EnvVars, pc, walked, files, lst, err, loc, c, m, errs, opened>>

\* the loop ends
SpawnEnd ==
    /\ pc = "spawn"
    /\ spawned = Len(files)
    /\ pc' = "wait"
    /\ UNCHANGED <<CmdVars, EnvVars, walked, files, lst, err, HashVars>>

CanSendOffByOne(len, cap) == len <= cap

\* a send on the channel c of capacity n proceeds when c is not full
CanSend(len, cap) == len < cap

\* c <- struct{}{}
Acquire(i) ==
    /\ tpc[i] = "acquire"
    /\ CanSend(c, n)
    /\ c' = c + 1
    /\ tpc' = [tpc EXCEPT ![i] = "open"]
    /\ UNCHANGED <<CmdVars, EnvVars, pc, walked, files, lst, err, spawned, loc, g, m, errs, opened>>

\* h := newHash(hashName); calcHash: f, err := os.Open(file)
OpenFile(i) ==
    /\ tpc[i] = "open"
    /\ LET r == Open(disk, files[i].Path)
       IN IF r.err # "nil"
          THEN /\ loc' = [loc EXCEPT ![i] = [hashValue |-> <<>>, err |-> r.err]]
               /\ tpc' = [tpc EXCEPT ![i] = "result"]
               /\ UNCHANGED opened
          ELSE /\ opened' = opened \cup {i}
               /\ tpc' = [tpc EXCEPT ![i] = "copy"]
               /\ UNCHANGED loc
    /\ UNCHANGED <<CmdVars, EnvVars, pc, walked, files, lst, err, spawned, c, g, m, errs>>

\* calcHash after os.Open: io.Copy(h, f), the hex digest, and the deferred
\* f.Close() as calcHash returns
CopyClose(i) ==
    /\ tpc[i] = "copy"
    /\ LET r == Copy(disk, newHash(hashName), Open(disk, files[i].Path).file)
       IN loc' = [loc EXCEPT ![i] = r]
    /\ opened' = opened \ {i}
    /\ tpc' = [tpc EXCEPT ![i] = "result"]
    /\ UNCHANGED <<CmdVars, EnvVars, pc, walked, files, lst, err, spawned, c, g, m, errs>>

\* if err != nil { m.Lock() ... } else { f.Hash = hashValue }
Result(i) ==
    /\ tpc[i] = "result"
    /\ IF loc[i].err # "nil"
       THEN /\ m = 0
            /\ m' = i
            /\ tpc' = [tpc EXCEPT ![i] = "append"]
            /\ UNCHANGED files
       ELSE /\ files' = [files EXCEPT ![i].Hash = loc[i].hashValue]
            /\ tpc' = [tpc EXCEPT ![i] = "release"]
            /\ UNCHANGED m
    /\ UNCHANGED <<CmdVars, EnvVars, pc, walked, lst, err, spawned, loc, c, g, errs, opened>>

\* errs = append(errs, ...); m.Unlock()
AppendErr(i) ==
    /\ tpc[i] = "append"
    /\ errs' = Append(errs, [Path |-> files[i].Path, cause |-> loc[i].err])
    /\ m' = 0
    /\ tpc' = [tpc EXCEPT ![i] = "release"]
    /\ UNCHANGED <<CmdVars, EnvVars, pc, walked, files, lst, err, spawned, loc, c, g, opened>>

\* the deferred func() { <-c }()
Release(i) ==
    /\ tpc[i] = "release"
    /\ c > 0
    /\ c' = c - 1
    /\ tpc' = [tpc EXCEPT ![i] = "done"]
    /\ UNCHANGED <<CmdVars, EnvVars, pc, walked, files, lst, err, spawned, loc, g, m, errs, opened>>

\* the deferred g.Done()
Done(i) ==
    /\ tpc[i] = "done"
    /\ g' = g - 1
    /\ tpc' = [tpc EXCEPT ![i] = "end"]
    /\ UNCHANGED <<CmdVars, EnvVars, pc, walked, files, lst, err, spawned, loc, c, m, errs, opened>>

WaitReturnsAtOnce(cnt) == TRUE

WaitReturnsEarly(cnt) == cnt <= 1

\* g.Wait() returns when the counter of g is zero
WaitReturns(cnt) == cnt = 0

\* g.Wait(); return errors.Join(errs...)
Wait ==
    /\ pc = "wait"
    /\ WaitReturns(g)
    /\ err' = errs
    /\ pc' = "groupByHash"
    /\ UNCHANGED <<CmdVars, EnvVars, walked, files, lst, HashVars>>

\* lst := groupByHash(fs); return lst, err
GroupByHash ==
    /\ pc = "groupByHash"
    /\ lst' = groupByHash(files)
    /\ pc' = "done"
    /\ UNCHANGED <<CmdVars, EnvVars, walked, files, err, HashVars>>

Tasks == DOMAIN tpc

Next ==
    \/ WalkDirs
    \/ GroupBySize
    \/ CalcHashsEnter
    \/ Spawn
    \/ SpawnEnd
    \/ \E i \in Tasks : Acquire(i)
    \/ \E i \in Tasks : OpenFile(i)
    \/ \E i \in Tasks : CopyClose(i)
    \/ \E i \in Tasks : Result(i)
    \/ \E i \in Tasks : AppendErr(i)
    \/ \E i \in Tasks : Release(i)
    \/ \E i \in Tasks : Done(i)
    \/ Wait
    \/ GroupByHash

Spec == Init /\ [][Next]_vars

\* ---------------------------------------------- calcHashs on any file list
\* the records walkDirs makes of the two variable files
HashInputs(d) == {FileInfo(PathString(p), Len(d[p].data), <<>>) : p \in VarFiles}

\* calcHashs(files, hashName, n) is called with any list of files
InitHash ==
    \* FileA can be read, or fails while it is read
    /\ disk \in {d \in DiskStates : /\ \A p \in VarFiles : d[p].data = <<"x">>
                                    /\ d[FileA].fault # "open"}
    /\ cwdOk = TRUE
    /\ dirs = <<>>
    /\ hashName \in HashNames
    /\ n \in 1..MaxN
    /\ pc = "calcHashs"
    /\ walked = <<>>
    /\ files \in SeqsUpTo(HashInputs(disk), MaxFiles)
    /\ lst = <<>> /\ err = <<>>
    /\ spawned = 0 /\ tpc = <<>> /\ loc = <<>>
    /\ c = 0 /\ g = 0 /\ m = 0 /\ errs = <<>> /\ opened = {}
    /\ NoCmd

NextHash ==
    \/ CalcHashsEnter
    \/ Spawn
    \/ SpawnEnd
    \/ \E i \in Tasks : Acquire(i)
    \/ \E i \in Tasks : OpenFile(i)
    \/ \E i \in Tasks : CopyClose(i)
    \/ \E i \in Tasks : Result(i)
    \/ \E i \in Tasks : AppendErr(i)
    \/ \E i \in Tasks : Release(i)
    \/ \E i \in Tasks : Done(i)
    \/ Wait
    \/ GroupByHash

\* a goroutine that can take a step is eventually run: the program does not
\* stop while some goroutine is runnable
HashSpec == InitHash /\ [][NextHash]_vars /\ WF_vars(NextHash)

\* ---------------------------------------------------------------- claims
HoldsSlot(i) == tpc[i] \in {"open", "copy", "result", "append", "release"}

\* C1: during calcHashs at most n files are open for reading, and a file is
\* open only while its goroutine holds a slot of the channel c.
C1_AtMostNOpen ==
    /\ Cardinality(opened) <= n
    /\ \A i \in opened : HoldsSlot(i)
    /\ Cardinality({i \in Tasks : HoldsSlot(i)}) = c

C1_Witness ==
    /\ n >= 2
    /\ Cardinality(opened) = n
    /\ \E i \in Tasks : tpc[i] = "acquire"

\* the paths of each group of a DupList
PathSets(l) == [k \in DOMAIN l |-> {l[k][i].Path : i \in DOMAIN l[k]}]

\* the outcome of hashing one record on its own
HashedAlone(d, h, f) ==
    LET o == Open(d, f.Path)
    IN IF o.err # "nil" THEN f
       ELSE [f EXCEPT !.Hash = Copy(d, newHash(h), o.file).hashValue]

\* the detection result of a tree, hashing the records one after the other
Sequential(d, ok, ds, h) ==
    LET w == walkDirs(d, ok, ds).files
        s == groupBySize(w, CHOOSE o \in Orders(SizeKeys(w)) : TRUE)
    IN groupByHash([i \in DOMAIN s |-> HashedAlone(d, h, s[i])])

\* C7: the paths per hash that List returns are those of the tree hashed
\* sequentially, whatever n and whatever the interleaving of the goroutines.
C7_SameForEveryN ==
    (pc = "done" /\ walkDirs(disk, cwdOk, dirs).err = <<>>)
        => PathSets(lst) = PathSets(Sequential(disk, cwdOk, dirs, hashName))

C7_Witness ==
    /\ pc = "done" /\ n >= 2 /\ Len(files) > n
    /\ DOMAIN lst # {}
    /\ \E i \in DOMAIN files : files[i].Hash = <<>>

Hashing == pc \in {"spawn", "wait"}

\* C9: calcHashs has not returned while a goroutine is waiting for a slot or
\* hashing, groupByHash runs only after all goroutines ended, and List
\* eventually returns.
C9_Barrier ==
    /\ [](~Hashing /\ pc # "calcHashs" => \A i \in Tasks : tpc[i] = "end")
    /\ [](pc = "done" => g = 0 /\ c = 0)
    /\ <>(pc = "done")

C9_Witness == pc = "groupByHash" /\ Len(files) > n /\ n >= 1

\* C10: every group List returns has at least 2 distinct paths.
C10_DistinctPaths ==
    pc = "done" => \A k \in DOMAIN lst : Cardinality(PathSets(lst)[k]) >= 2

\* ------------------------------------------- groupBySize on any record list
MaxLen == 4
MaxSize == 2

PathA == PathString(FileA)
PathB == PathString(FileB)

SizeInputs == {FileInfo(p, z, <<>>) : p \in {PathA, PathB}, z \in 1..MaxSize}

NoHashing ==
    /\ spawned = 0 /\ tpc = <<>> /\ loc = <<>>
    /\ c = 0 /\ g = 0 /\ m = 0 /\ errs = <<>> /\ opened = {}

NoWalk ==
    /\ disk \in {d \in DiskStates : \A p \in VarFiles : d[p] = [data |-> <<"x">>, fault |-> "none"]}
    /\ cwdOk = TRUE
    /\ dirs = <<>>
    /\ hashName \in HashNames
    /\ n = 1

\* groupBySize(files) is called with any list of records
InitSize ==
    /\ NoWalk /\ NoHashing /\ NoCmd
    /\ pc = "groupBySize"
    /\ walked \in SeqsUpTo(SizeInputs, MaxLen)
    /\ files = <<>> /\ lst = <<>> /\ err = <<>>

SizeSpec == InitSize /\ [][GroupBySize]_vars

\* ------------------------------------------- groupByHash on any record list
Hash1 == <<"0", "a">>
Hash2 == <<"0", "b">>
GroupInputs == {FileInfo(p, 1, h) : p \in {PathA, PathB}, h \in {<<>>, Hash1, Hash2}}

\* groupByHash(files) is called with any list of records
InitGroup ==
    /\ NoWalk /\ NoHashing /\ NoCmd
    /\ pc = "groupByHash"
    /\ walked = <<>>
    /\ files \in SeqsUpTo(GroupInputs, MaxLen)
    /\ lst = <<>> /\ err = <<>>

GroupSpec == InitGroup /\ [][GroupByHash]_vars

\* number of times r occurs in the sequence s
Count(s, r) == Cardinality({i \in DOMAIN s : s[i] = r})
Range(s) == {s[i] : i \in DOMAIN s}

\* number of records of s with size z
SizeCount(s, z) == Cardinality({i \in DOMAIN s : s[i].Size = z})

\* C3: groupBySize returns, as a multiset, exactly the records whose size is
\* shared by at least 2 input records; no size occurs exactly once in it.
C3_SharedSizes ==
    pc = "calcHashs" =>
        /\ \A r \in Range(walked) \cup Range(files) :
              Count(files, r) = IF SizeCount(walked, r.Size) >= 2 THEN Count(walked, r) ELSE 0
        /\ \A i \in DOMAIN files : SizeCount(files, files[i].Size) # 1
        /\ (walked = <<>> => files = <<>>)

C3_Witness ==
    /\ pc = "calcHashs"
    /\ files # <<>>
    /\ Len(files) < Len(walked)
    /\ \E i, j \in DOMAIN files : i # j /\ files[i] = files[j]

\* number of records of s with hash h
HashCount(s, h) == Cardinality({i \in DOMAIN s : s[i].Hash = h})

\* number of times r occurs in the groups of l
GroupCount(l, r) == IF r.Hash \in DOMAIN l THEN Count(l[r.Hash], r) ELSE 0

\* C2: every group groupByHash returns has at least 2 records, each filed
\* under its own hash, and the groups hold exactly the input records with a
\* non-empty hash that occurs at least 2 times in the input.
C2_HashGroups ==
    pc = "done" =>
        /\ \A k \in DOMAIN lst : Len(lst[k]) >= 2 /\ k # <<>>
        /\ \A k \in DOMAIN lst : \A i \in DOMAIN lst[k] : lst[k][i].Hash = k
        /\ \A k \in DOMAIN lst : Range(lst[k]) \subseteq Range(files)
        /\ \A r \in Range(files) :
              GroupCount(lst, r) =
                  IF r.Hash # <<>> /\ HashCount(files, r.Hash) >= 2 THEN Count(files, r) ELSE 0
        /\ ((\A i \in DOMAIN files : files[i].Hash = <<>>) => DOMAIN lst = {})

C2_Witness ==
    /\ pc = "done"
    /\ DOMAIN lst # {}
    /\ \E i \in DOMAIN files : files[i].Hash = <<>>
    /\ \E i \in DOMAIN files : files[i].Hash # <<>> /\ HashCount(files, files[i].Hash) = 1

\* ------------------------------------------------------ saveList, readList
Tab == "\t"
Newline == "\n"
Return == "\r"
splitLine == <<"-", "-", "-", "-", "-", "-", "-", "-">>

Digits == <<"0", "1", "2", "3", "4", "5", "6", "7", "8", "9">>

RECURSIVE Itoa(_)
\* the verb %d of a number that is not negative
Itoa(k) == IF k < 10 THEN <<Digits[k + 1]>> ELSE Itoa(k \div 10) \o <<Digits[(k % 10) + 1]>>

\* fmt.Sprintf("%s\t%dB\t%s\n", s.Path, s.Size, s.Hash)
RecordLine(f) == f.Path \o <<Tab>> \o Itoa(f.Size) \o <<"B", Tab>> \o f.Hash \o <<Newline>>

RECURSIVE recordLines(_, _)
\* the inner loop of saveList over the records of a group, from index k
recordLines(v, k) == IF k > Len(v) THEN <<>> ELSE RecordLine(v[k]) \o recordLines(v, k + 1)

RECURSIVE groupLines(_, _, _)
\* the outer loop of saveList, visiting the keys of l in the order o from index k
groupLines(l, o, k) ==
    IF k > Len(o) THEN <<>>
    ELSE splitLine \o <<Newline>> \o recordLines(l[o[k]], 1) \o groupLines(l, o, k + 1)

\* index of the first ch in s from index k, 0 when there is none
RECURSIVE IndexFrom(_, _, _)
IndexFrom(s, ch, k) ==
    IF k > Len(s) THEN 0 ELSE IF s[k] = ch THEN k ELSE IndexFrom(s, ch, k + 1)

\* bufio.dropCR
dropCR(s) == IF Len(s) > 0 /\ s[Len(s)] = Return THEN SubSeq(s, 1, Len(s) - 1) ELSE s

RECURSIVE ScanLines(_)
\* the lines a bufio.Scanner yields for a text
ScanLines(text) ==
    LET i == IndexFrom(text, Newline, 1)
    IN IF Len(text) = 0 THEN <<>>
       ELSE IF i = 0 THEN <<dropCR(text)>>
       ELSE <<dropCR(SubSeq(text, 1, i - 1))>> \o ScanLines(SubSeq(text, i + 1, Len(text)))

RECURSIVE Split(_, _)
\* strings.Split(s, sep) for a separator of one character
Split(s, sep) ==
    LET i == IndexFrom(s, sep, 1)
    IN IF i = 0 THEN <<s>>
       ELSE <<SubSeq(s, 1, i - 1)>> \o Split(SubSeq(s, i + 1, Len(s)), sep)

RECURSIVE readLines(_, _)
\* the scanner loop of readList over the lines of one file, from index k
readLines(lines, k) ==
    IF k > Len(lines) THEN [err |-> <<>>, list |-> <<>>]
    ELSE IF lines[k] = splitLine THEN readLines(lines, k + 1)
    ELSE LET s == Split(lines[k], Tab)
         IN IF Len(s) < 1 THEN [err |-> <<"format">>, list |-> <<>>]
            ELSE LET rest == readLines(lines, k + 1)
                 IN IF rest.err # <<>> THEN rest
                    ELSE [err |-> <<>>, list |-> <<s[1]>> \o rest.list]

RECURSIVE readList(_, _)
\* readList over the files fs, from index k
readList(fs, k) ==
    IF k > Len(fs) THEN [err |-> <<>>, list |-> <<>>]
    ELSE IF ~fs[k].ok THEN [err |-> <<"open">>, list |-> <<>>]
    ELSE LET r == readLines(ScanLines(fs[k].text), 1)
         IN IF r.err # <<>> THEN r
            ELSE LET rest == readList(fs, k + 1)
                 IN IF rest.err # <<>> THEN rest
                    ELSE [err |-> <<>>, list |-> r.list \o rest.list]

PipeVars == <<disk, cwdOk, dirs, hashName, walked, files, spawned, tpc, loc, c, g, m, opened>>

\* saveList(cfg.outFile, l), its error printed by Execute
SaveList ==
    /\ pc = "saveList"
    /\ \/ /\ DOMAIN lst = {}
          /\ out' = Append(out, [kind |-> "error", text |-> <<"none">>])
          /\ pc' = "exit"
          /\ UNCHANGED lists
       \/ /\ DOMAIN lst # {}
          /\ out' = Append(out, [kind |-> "error", text |-> <<"open">>])
          /\ pc' = "exit"
          /\ UNCHANGED lists
       \/ /\ DOMAIN lst # {}
          /\ \E o \in Orders(DOMAIN lst) :
                /\ lists' = <<[ok |-> TRUE, text |-> groupLines(lst, o, 1)]>>
                /\ out' = Append(out, [kind |-> "list", text |-> groupLines(lst, o, 1)])
          /\ pc' = "readList"
    /\ UNCHANGED <<PipeVars, n, lst, err, errs, exist, delList, idx, removed>>

\* clean: delList, err := readList(cfg.args), its error printed by Execute
ReadList ==
    /\ pc = "readList"
    /\ LET r == readList(lists, 1)
       IN IF r.err # <<>>
          THEN /\ err' = r.err
               /\ out' = Append(out, [kind |-> "error", text |-> r.err])
               /\ pc' = "exit"
               /\ UNCHANGED delList
          ELSE /\ delList' = r.list
               /\ pc' = "Clean"
               /\ UNCHANGED <<err, out>>
    /\ UNCHANGED <<PipeVars, n, lst, errs, lists, exist, idx, removed>>

\* ------------------------------------------------------------ Clean, clean
\* os.Remove: a path is removed when it exists, else the call fails
Remove(ex, path) == [err |-> path \notin ex, exist |-> ex \ {path}]

TallyCountsAll(cnt, es, file, failed) ==
    [n |-> cnt + 1,
     errs |-> IF failed THEN Append(es, [Path |-> file, cause |-> "remove"]) ELSE es]

\* the body of the loop of Clean after os.Remove(file)
Tally(cnt, es, file, failed) ==
    IF failed THEN [n |-> cnt, errs |-> Append(es, [Path |-> file, cause |-> "remove"])]
    ELSE [n |-> cnt + 1, errs |-> es]

\* Clean up to its loop: return 0, nil for no files, else n := 0, errs := []
CleanEnter ==
    /\ pc = "Clean"
    /\ n' = 0 /\ errs' = <<>> /\ idx' = 0
    /\ IF Len(delList) = 0
       THEN /\ err' = <<>> /\ pc' = "report"
       ELSE /\ pc' = "remove" /\ UNCHANGED err
    /\ UNCHANGED <<PipeVars, lst, lists, exist, delList, removed, out>>

\* one iteration of the loop of Clean
RemoveFile ==
    /\ pc = "remove"
    /\ idx < Len(delList)
    /\ LET file == delList[idx + 1]
           r == Remove(exist, file)
           t == Tally(n, errs, file, r.err)
       IN /\ exist' = r.exist
          /\ removed' = Append(removed, [Path |-> file, existed |-> file \in exist])
          /\ n' = t.n
          /\ errs' = t.errs
    /\ idx' = idx + 1
    /\ UNCHANGED <<PipeVars, pc, lst, err, lists, delList, out>>

\* the loop ends: return n, errors.Join(errs...)
CleanReturn ==
    /\ pc = "remove"
    /\ idx = Len(delList)
    /\ err' = errs
    /\ pc' = "report"
    /\ UNCHANGED <<PipeVars, n, lst, errs, lists, exist, delList, idx, removed, out>>

\* clean after Clean: return err, which Execute prints, or print the count
Report ==
    /\ pc = "report"
    /\ IF err # <<>>
       THEN out' = Append(out, [kind |-> "error", text |-> err])
       ELSE out' = Append(out, [kind |-> "summary", text |-> Itoa(n)])
    /\ pc' = "exit"
    /\ UNCHANGED <<PipeVars, n, lst, err, errs, lists, exist, delList, idx, removed>>

\* ------------------------------------------- saveList on any list, read back
MaxName == 1
NameChars == {"a", Tab, Newline}
SavePaths == {<<Sep>> \o s : s \in UNION {[1..j -> NameChars] : j \in 1..MaxName}}

\* a group of two records of the same size and hash
Pairs(z, h) == {<<FileInfo(p, z, h), FileInfo(q, z, h)>> : p, q \in SavePaths}

\* the results of List with the hashes Hash1, for files of 7 bytes, and Hash2,
\* for files of 12 bytes
DupLists ==
    UNION {[K -> UNION {Pairs(7, Hash1), Pairs(12, Hash2)}] : K \in SUBSET {Hash1, Hash2}}

\* saveList(f, l) is called with any DupList, and the file it wrote is then
\* given to -c
InitSave ==
    /\ NoWalk /\ NoHashing
    /\ pc = "saveList"
    /\ walked = <<>> /\ files = <<>> /\ err = <<>>
    /\ lst \in {l \in DupLists : \A k \in DOMAIN l : l[k][1].Hash = k}
    /\ lists = <<>> /\ exist = {} /\ delList = <<>>
    /\ idx = 0 /\ removed = <<>> /\ out = <<>>

SaveSpec == InitSave /\ [][SaveList \/ ReadList]_vars

\* ------------------------------------------------------ -c on any list file
MaxArgs == 2
MaxLines == 3

CleanPaths == {PathA, PathB}

\* the lines of a list file: a delimiter, a record of PathA, PathB alone, and
\* an empty line
Lines == {splitLine \o <<Newline>>,
          RecordLine(FileInfo(PathA, 7, Hash1)),
          PathB \o <<Newline>>,
          <<Newline>>}

RECURSIVE Concat(_)
Concat(ss) == IF ss = <<>> THEN <<>> ELSE ss[1] \o Concat(Tail(ss))

\* the list files of exactly i lines, and for no line the file that cannot
\* be opened
FilesWith(i) ==
    {[ok |-> TRUE, text |-> Concat(ls)] : ls \in [1..i -> Lines]}
        \cup (IF i = 0 THEN {[ok |-> FALSE, text |-> <<>>]} ELSE {})

RECURSIVE FileSeqs(_, _)
\* the sequences of j list files that have at most k lines in all
FileSeqs(j, k) ==
    IF j = 0 THEN {<<>>}
    ELSE UNION {{<<f>> \o rest : f \in FilesWith(i), rest \in FileSeqs(j - 1, k - i)} : i \in 0..k}

\* clean(cfg) is called with list files of any content
InitClean ==
    /\ NoWalk /\ NoHashing
    /\ pc = "readList"
    /\ walked = <<>> /\ files = <<>> /\ lst = <<>> /\ err = <<>>
    /\ lists \in UNION {FileSeqs(j, MaxLines) : j \in 1..MaxArgs}
    /\ exist \in SUBSET CleanPaths
    /\ delList = <<>> /\ idx = 0 /\ removed = <<>> /\ out = <<>>

NextClean ==
    \/ ReadList
    \/ CleanEnter
    \/ RemoveFile
    \/ CleanReturn
    \/ Report

CleanSpec == InitClean /\ [][NextClean]_vars

\* the paths of the calls of os.Remove, in order
Attempted == [j \in DOMAIN removed |-> removed[j].Path]

\* the paths that existed when Clean was called
ExistedAtCall == exist \cup {removed[j].Path : j \in {i \in DOMAIN removed : removed[i].existed}}

Distinct(s) == \A i, j \in DOMAIN s : s[i] = s[j] => i = j

\* the entries of delList whose path did not exist when Clean was called
Missing == {j \in DOMAIN delList : delList[j] \notin ExistedAtCall}

\* C4: Clean calls os.Remove once for each entry, in list order, and when it
\* returns n plus the number of failures is the list length, n is the number of
\* entries whose path existed when it was attempted, the failures name their
\* paths in order, and the error is nil exactly when nothing failed.
C4_CleanCounts ==
    pc = "report" =>
        /\ Attempted = delList
        /\ n + Len(errs) = Len(delList)
        /\ n = Cardinality({j \in DOMAIN removed : removed[j].existed})
        /\ [j \in DOMAIN errs |-> errs[j].Path]
              = [j \in DOMAIN SelectSeq(removed, LAMBDA r : ~r.existed) |->
                    SelectSeq(removed, LAMBDA r : ~r.existed)[j].Path]
        /\ (err = <<>> <=> n = Len(delList))
        /\ (Distinct(delList) /\ Missing = {} => n = Len(delList) /\ err = <<>>)
        /\ (Distinct(delList) /\ Cardinality(Missing) = 1 =>
              /\ n = Len(delList) - 1
              /\ Len(errs) = 1
              /\ \A j \in Missing : errs[1].Path = delList[j])
        /\ (delList = <<>> => n = 0 /\ err = <<>> /\ removed = <<>>)

C4_Witness ==
    /\ pc = "report"
    /\ ~Distinct(delList)
    /\ n >= 2
    /\ Len(errs) >= 1

\* a list file has an empty line
HasEmptyLine == \E k \in DOMAIN lists : \E j \in DOMAIN ScanLines(lists[k].text) :
                    ScanLines(lists[k].text)[j] = <<>>

\* C5: when a list file that readList reads has an empty line, readList
\* returns an error, Clean is not called and no file is removed.
C5_EmptyLineRejected ==
    ((\A k \in DOMAIN lists : lists[k].ok) /\ HasEmptyLine) =>
        /\ pc \in {"readList", "exit"}
        /\ removed = <<>>
        /\ (pc = "exit" => err # <<>> /\ delList = <<>>)

\* C6: when some but not all deletions failed, every path was attempted and
\* the count of cleaned files is printed.
C6_SummaryPrinted ==
    (/\ pc = "exit"
     /\ \E j \in DOMAIN removed : removed[j].existed
     /\ \E j \in DOMAIN removed : ~removed[j].existed) =>
        /\ Attempted = delList
        /\ \E j \in DOMAIN out : out[j].kind = "summary"

\* the paths of all records of a DupList
AllPaths(l) == UNION {PathSets(l)[k] : k \in DOMAIN l}

\* C8: the paths readList reads from the file saveList wrote are exactly the
\* paths of the DupList.
C8_RoundTrip == pc = "Clean" => Range(delList) = AllPaths(lst)

====
